---- MODULE Spec2Model ----
(***************************************************************************)
(* Ranking and deduplication core of the media-search aggregator:          *)
(*   app/ranking/deduplication.py  deduplicate_results,                    *)
(*                                 deduplicate_across_batches              *)
(*   app/ranking/scorer.py         MediaScorer                             *)
(*   app/agents/ranker.py          RankerAgent.process                     *)
(*                                                                         *)
(* Numbers.  Scores are Python floats in the source; here a factor score   *)
(* is an integer number of 1/SCALE units (SCALE = 60 makes every tier      *)
(* value and every ratio k/n with n <= 6 exact), a raw weight is an        *)
(* integer number of 1/WUNIT units, and final_score is the exact rational  *)
(* [n, d].  Floating-point rounding is not modelled.                       *)
(***************************************************************************)
EXTENDS Integers, Sequences, FiniteSets, TLC

\* ------------------------------------------------------------------ bounds
MaxDedupLen == 3
MaxBatches == 2
MaxBatchLen == 2
MaxRankLen == 3
MaxLimit == 2
MaxScoreLen == 2
MaxApiLen == 1
MaxConcLen == 2

SCALE == 3 * 20
WUNIT == 4 * 5

\* ------------------------------------------------------- generic helpers
Min(a, b) == IF a <= b THEN a ELSE b
Max(a, b) == IF a >= b THEN a ELSE b

BoundedSeq(S, n) == UNION {[1..k -> S] : k \in 0..n}

Range(s) == {s[i] : i \in DOMAIN s}

RECURSIVE SumOver(_, _)
SumOver(S, f) ==
  IF S = {} THEN 0
  ELSE LET x == CHOOSE y \in S : TRUE IN f[x] + SumOver(S \ {x}, f)

RECURSIVE Flatten(_)
Flatten(ss) == IF ss = <<>> THEN <<>> ELSE Head(ss) \o Flatten(Tail(ss))

\* Python slice seq[:k] for any integer k (a negative k counts from the end).
PySliceTo(seq, k) ==
  LET n == Len(seq)
      stop == IF k < 0 THEN Max(0, n + k) ELSE Min(k, n)
  IN SubSeq(seq, 1, stop)

\* The subsequence of s at the index set K, in index order.
RECURSIVE SubSeqAt(_, _, _)
SubSeqAt(s, K, i) ==
  IF i > Len(s) THEN <<>>
  ELSE (IF i \in K THEN <<s[i]>> ELSE <<>>) \o SubSeqAt(s, K, i + 1)

\* ------------------------------------------------------------ data model
NoUrl == "None"
Urls == {"u1", "u2", "u3"}
Ids == {"id1", "id2", "id3"}
Sources == {"pexels", "pixabay"}

MediaUrls(original, large, medium) ==
  [original |-> original, large |-> large, medium |-> medium]

Zero == [n |-> 0, d |-> 1]

MediaItem(id, urls, source, width, height, title, tags, views, created_at) ==
  [id |-> id, urls |-> urls, source |-> source,
   width |-> width, height |-> height,
   title |-> title, description |-> <<>>, tags |-> tags,
   views |-> views, downloads |-> 0, likes |-> 0,
   created_at |-> created_at,
   relevance_score |-> 0, quality_score |-> 0, final_score |-> Zero]

NoDate == [known |-> FALSE, age_days |-> 0]
Aged(days) == [known |-> TRUE, age_days |-> days]

\* ---------------------------------------------------------- deduplication
VARIABLES
  pc,                 \* position of the call under study
  items,              \* the item list given to deduplicate_results / rank
  batches,            \* the batch list given to deduplicate_across_batches
  dd1, dd2,           \* results of deduplicate_results, first and second pass
  across,             \* result of deduplicate_across_batches
  query,              \* RankInput.query
  limit,              \* RankInput.limit
  min_quality_score,  \* RankInput.min_quality_score, in 1/SCALE units
  weights_arg,        \* the weights argument of the constructor
  weights,            \* MediaScorer.weights after construction
  openai_client,      \* TRUE when an embedding provider is configured
  embed,              \* the embed_batch call: state, texts sent, vectors returned
  dups_removed,       \* process: dups_removed
  scored_items,       \* process: the deduplicated items, as scored so far
  result,             \* the RankResult returned
  raised,             \* the exception that left process, or "none"
  calls,              \* concurrent rank calls on one agent: each call's frame
  _last_cache_hit,    \* BaseAgent._last_cache_hit of the shared RankerAgent
  pure,               \* a direct call of one of the scorer's pure methods
  cb,                 \* a CircuitBreaker, its callers and the protected service
  rl,                 \* a RateLimiter, its cache, the clock and its callers
  bp,                 \* a BatchPipeline.execute call and its searches
  sp                  \* concurrent SearchPipeline.execute calls and the agent caches

\* Items that differ only in what deduplication reads: every id with every
\* original URL, with no variant, a large variant or a medium variant.
DedupPool ==
  {MediaItem(id, MediaUrls(o, v[1], v[2]), "pexels", 1920, 1080, <<>>, <<>>, 0, NoDate) :
     id \in Ids, o \in Urls, v \in {<<NoUrl, NoUrl>>, <<"u3", NoUrl>>, <<NoUrl, "u2">>}}

DedupState0 ==
  [seen_ids |-> {}, seen_urls |-> {}, unique_items |-> <<>>, duplicates |-> 0]

IdSeen(item, seen_ids) == item.id \in seen_ids

UrlSeenNever(item, seen_urls) == FALSE

UrlSeen(item, seen_urls) == item.urls.original \in seen_urls

MarkUrlsOriginalOnly(item, seen_urls) == seen_urls \cup {item.urls.original}

MarkUrls(item, seen_urls) ==
  (seen_urls \cup {item.urls.original})
    \cup (IF item.urls.large # NoUrl THEN {item.urls.large} ELSE {})
    \cup (IF item.urls.medium # NoUrl THEN {item.urls.medium} ELSE {})

DedupStepNoContinue(st, item) ==
  IF IdSeen(item, st.seen_ids)
    THEN [st EXCEPT !.duplicates = @ + 1]
  ELSE [seen_ids |-> st.seen_ids \cup {item.id},
        seen_urls |-> MarkUrls(item, st.seen_urls),
        unique_items |-> Append(st.unique_items, item),
        duplicates |-> IF UrlSeen(item, st.seen_urls)
                         THEN st.duplicates + 1 ELSE st.duplicates]

DedupStepPrepend(st, item) ==
  IF IdSeen(item, st.seen_ids) \/ UrlSeen(item, st.seen_urls)
    THEN [st EXCEPT !.duplicates = @ + 1]
  ELSE [seen_ids |-> st.seen_ids \cup {item.id},
        seen_urls |-> MarkUrls(item, st.seen_urls),
        unique_items |-> <<item>> \o st.unique_items,
        duplicates |-> st.duplicates]

\* One iteration of the loop of deduplicate_results.
DedupStep(st, item) ==
  IF IdSeen(item, st.seen_ids)
    THEN [st EXCEPT !.duplicates = @ + 1]
  ELSE IF UrlSeen(item, st.seen_urls)
    THEN [st EXCEPT !.duplicates = @ + 1]
  ELSE [seen_ids |-> st.seen_ids \cup {item.id},
        seen_urls |-> MarkUrls(item, st.seen_urls),
        unique_items |-> Append(st.unique_items, item),
        duplicates |-> st.duplicates]

RECURSIVE DedupLoop(_, _)
DedupLoop(st, rest) ==
  IF rest = <<>> THEN st ELSE DedupLoop(DedupStep(st, Head(rest)), Tail(rest))

deduplicate_results(its) ==
  IF its = <<>> THEN [unique |-> <<>>, removed |-> 0]
  ELSE LET st == DedupLoop(DedupState0, its)
       IN [unique |-> st.unique_items, removed |-> st.duplicates]

NoResult == [unique |-> <<>>, removed |-> 0]

dedupVars == <<dd1, dd2, across>>
rankVars == <<query, limit, min_quality_score, weights_arg, weights, openai_client,
              embed, dups_removed, scored_items, result, raised>>
concVars == <<calls, _last_cache_hit>>
utilVars == <<pure, cb, rl, bp, sp>>
coreVars == <<pc, items, batches, dedupVars, rankVars, concVars>>
vars == <<coreVars, utilVars>>

NoQuery ==
  [english_query |-> <<>>, keywords |-> <<>>, semantic_concepts |-> <<>>, synonyms |-> <<>>]
NoWeights == [num |-> <<>>, den |-> 1]
\* The constructor's `weights` argument: None, or a caller-supplied map.
NoneWeights == [given |-> FALSE, map |-> <<>>]
GivenWeights(map) == [given |-> TRUE, map |-> map]
NoEmbed == [state |-> "idle", texts |-> <<>>, vectors |-> <<>>]
NoRank == [items |-> <<>>, duplicates_removed |-> 0]

\* The ranker is not in use.
RankIdle ==
  /\ query = NoQuery /\ limit = 0 /\ min_quality_score = 0
  /\ weights_arg = NoneWeights /\ weights = NoWeights /\ openai_client = FALSE
  /\ embed = NoEmbed /\ dups_removed = 0 /\ scored_items = <<>>
  /\ result = NoRank /\ raised = "none"

\* No concurrent calls are in use.
ConcIdle == calls = <<>> /\ _last_cache_hit = FALSE

\* The utilities and pipelines are not in use.
Idle == [pc |-> "idle"]
UtilIdle == pure = Idle /\ cb = Idle /\ rl = Idle /\ bp = Idle /\ sp = Idle

\* The deduplication functions are not in use.
DedupIdle ==
  /\ dd1 = NoResult /\ dd2 = NoResult
  /\ across = [batches |-> <<>>, removed |-> 0]

InitDedup ==
  /\ pc = "init"
  /\ items \in BoundedSeq(DedupPool, MaxDedupLen)
  /\ batches = <<>>
  /\ DedupIdle
  /\ RankIdle
  /\ ConcIdle
  /\ UtilIdle

\* unique, removed = deduplicate_results(items)
DedupCall ==
  /\ pc = "init"
  /\ dd1' = deduplicate_results(items)
  /\ pc' = "once"
  /\ UNCHANGED <<items, batches, dd2, across, rankVars, concVars, utilVars>>

\* deduplicate_results applied to its own output
DedupAgain ==
  /\ pc = "once"
  /\ dd2' = deduplicate_results(dd1.unique)
  /\ pc' = "twice"
  /\ UNCHANGED <<items, batches, dd1, across, rankVars, concVars, utilVars>>

NextDedup == DedupCall \/ DedupAgain

SpecDedup == InitDedup /\ [][NextDedup]_vars

\* --------------------------------------------- deduplication across batches
AcrossPool ==
  {MediaItem("id1", MediaUrls("u1", NoUrl, "u2"), "pexels", 1920, 1080, <<>>, <<>>, 0, NoDate),
   MediaItem("id2", MediaUrls("u2", "u3", NoUrl), "pexels", 1920, 1080, <<>>, <<>>, 0, NoDate),
   MediaItem("id3", MediaUrls("u3", NoUrl, NoUrl), "pixabay", 1920, 1080, <<>>, <<>>, 0, NoDate),
   MediaItem("id1", MediaUrls("u3", NoUrl, NoUrl), "pixabay", 1920, 1080, <<>>, <<>>, 0, NoDate)}

AcrossState0 ==
  [seen_ids |-> {}, seen_urls |-> {}, total_duplicates |-> 0,
   unique_in_batch |-> <<>>, deduplicated_batches |-> <<>>]

AcrossMarkUrlsWithVariants(item, seen_urls) == MarkUrls(item, seen_urls)

AcrossMarkUrls(item, seen_urls) == seen_urls \cup {item.urls.original}

\* One iteration of the inner loop of deduplicate_across_batches.
AcrossItemStep(st, item) ==
  IF IdSeen(item, st.seen_ids)
    THEN [st EXCEPT !.total_duplicates = @ + 1]
  ELSE IF UrlSeen(item, st.seen_urls)
    THEN [st EXCEPT !.total_duplicates = @ + 1]
  ELSE [st EXCEPT !.seen_ids = @ \cup {item.id},
                  !.seen_urls = AcrossMarkUrls(item, @),
                  !.unique_in_batch = Append(@, item)]

RECURSIVE AcrossItemLoop(_, _)
AcrossItemLoop(st, rest) ==
  IF rest = <<>> THEN st
  ELSE AcrossItemLoop(AcrossItemStep(st, Head(rest)), Tail(rest))

AcrossBatchStepFreshSets(st, batch) ==
  LET done == AcrossItemLoop([st EXCEPT !.unique_in_batch = <<>>,
                                        !.seen_ids = {}, !.seen_urls = {}], batch)
  IN [done EXCEPT !.deduplicated_batches = Append(@, done.unique_in_batch)]

\* One iteration of the outer loop: a fresh unique_in_batch, the shared sets.
AcrossBatchStep(st, batch) ==
  LET done == AcrossItemLoop([st EXCEPT !.unique_in_batch = <<>>], batch)
  IN [done EXCEPT !.deduplicated_batches = Append(@, done.unique_in_batch)]

RECURSIVE AcrossBatchLoop(_, _)
AcrossBatchLoop(st, rest) ==
  IF rest = <<>> THEN st
  ELSE AcrossBatchLoop(AcrossBatchStep(st, Head(rest)), Tail(rest))

deduplicate_across_batches(batch_results) ==
  LET st == AcrossBatchLoop(AcrossState0, batch_results)
  IN [batches |-> st.deduplicated_batches, removed |-> st.total_duplicates]

InitAcross ==
  /\ pc = "init"
  /\ items = <<>>
  /\ \E k \in 0..MaxBatches : batches \in [1..k -> BoundedSeq(AcrossPool, MaxBatchLen)]
  /\ DedupIdle
  /\ RankIdle
  /\ ConcIdle
  /\ UtilIdle

\* deduplicated, total = deduplicate_across_batches(batches)
AcrossCall ==
  /\ pc = "init"
  /\ across' = deduplicate_across_batches(batches)
  /\ pc' = "across"
  /\ UNCHANGED <<items, batches, dd1, dd2, rankVars, concVars, utilVars>>

NextAcross == AcrossCall

SpecAcross == InitAcross /\ [][NextAcross]_vars

\* ------------------------------------------------------------------ scorer
Factors ==
  {"semantic_relevance", "keyword_match", "visual_quality",
   "popularity", "recency", "source_diversity"}

\* DEFAULT_WEIGHTS, in 1/WUNIT units.
DEFAULT_WEIGHTS ==
  [f \in Factors |->
     CASE f = "semantic_relevance" -> 7
       [] f = "keyword_match" -> 4
       [] f = "visual_quality" -> 3
       [] OTHER -> 2]

MediaScorerWeightsNoNormalize(arg) ==
  LET w == IF arg.given /\ DOMAIN arg.map # {} THEN arg.map ELSE DEFAULT_WEIGHTS
  IN [num |-> w, den |-> WUNIT]

\* MediaScorer.__init__: self.weights as the numerators num over the common
\* denominator den, so that the weight of factor f is num[f] / den.
\* `weights or DEFAULT_WEIGHTS.copy()` takes the defaults for None and for an
\* empty map alike.
MediaScorerWeights(arg) ==
  LET w == IF arg.given /\ DOMAIN arg.map # {} THEN arg.map ELSE DEFAULT_WEIGHTS
      total == SumOver(DOMAIN w, w)
  IN IF total > 0 THEN [num |-> w, den |-> total]
     ELSE [num |-> w, den |-> WUNIT]

\* Words: a text is a sequence of words; str.lower() on the vocabulary.
Lower(w) == IF w = "Sunset" THEN "sunset" ELSE w

\* The embedding provider (external): the vector it returns for a text.
EmbedText(text) ==
  LET w == Lower(text[1])
  IN CASE w = "sunset" -> <<1, 0>>
       [] w = "ocean" -> <<0, 1>>
       [] w = "night" -> <<-1, 0>>
       [] w = "dusk" -> <<1, 0>>
       [] OTHER -> <<0, 0>>

QueryText(q) == q.english_query \o q.keywords

_get_item_text(item) ==
  LET parts == item.title \o item.description \o item.tags
  IN IF parts # <<>> THEN parts ELSE <<"media">>

\* all_texts of _get_embeddings
AllTexts(its, q) == <<QueryText(q)>> \o [i \in DOMAIN its |-> _get_item_text(its[i])]

ISqrt(n) == CHOOSE r \in 0..n : r * r <= n /\ (r + 1) * (r + 1) > n

Dot(v1, v2) == SumOver(DOMAIN v1, [i \in DOMAIN v1 |-> v1[i] * v2[i]])

CosineNoRescale(vec1, vec2) ==
  IF Len(vec1) # Len(vec2) THEN 0
  ELSE IF Dot(vec1, vec1) = 0 \/ Dot(vec2, vec2) = 0 THEN 0
  ELSE (Dot(vec1, vec2) * SCALE * SCALE)
         \div ISqrt(Dot(vec1, vec1) * Dot(vec2, vec2) * SCALE * SCALE)

CosineHalfOnDegenerate(vec1, vec2) ==
  IF Len(vec1) # Len(vec2) THEN SCALE \div 2
  ELSE IF Dot(vec1, vec1) = 0 \/ Dot(vec2, vec2) = 0 THEN SCALE \div 2
  ELSE LET similarity ==
             (Dot(vec1, vec2) * SCALE * SCALE)
               \div ISqrt(Dot(vec1, vec1) * Dot(vec2, vec2) * SCALE * SCALE)
       IN (similarity + SCALE) \div 2

\* MediaScorer._cosine_similarity, in 1/SCALE units (floor of the real value;
\* exact when the product of the squared norms is a perfect square).
_cosine_similarity(vec1, vec2) ==
  IF Len(vec1) # Len(vec2) THEN 0
  ELSE IF Dot(vec1, vec1) = 0 \/ Dot(vec2, vec2) = 0 THEN 0
  ELSE LET similarity ==
             (Dot(vec1, vec2) * SCALE * SCALE)
               \div ISqrt(Dot(vec1, vec1) * Dot(vec2, vec2) * SCALE * SCALE)
       IN (similarity + SCALE) \div 2

SemanticRelevanceZeroDefault(query_embedding, item_embedding) ==
  IF query_embedding # <<>> /\ item_embedding # <<>>
    THEN _cosine_similarity(query_embedding, item_embedding)
  ELSE 0

\* scores["semantic_relevance"]; an absent (None) or empty embedding is <<>>.
SemanticRelevance(query_embedding, item_embedding) ==
  IF query_embedding # <<>> /\ item_embedding # <<>>
    THEN _cosine_similarity(query_embedding, item_embedding)
  ELSE SCALE \div 2

KeywordScoreNoTags(item, q) ==
  LET query_terms == {Lower(t) : t \in Range(q.keywords \o q.semantic_concepts \o q.synonyms)}
      item_terms == {Lower(t) : t \in Range(item.title \o item.description)}
  IN IF query_terms = {} THEN SCALE \div 2
     ELSE IF item_terms = {} THEN 0
     ELSE Min(SCALE, (Cardinality(query_terms \cap item_terms) * SCALE)
                       \div Cardinality(query_terms))

KeywordScoreOverItemTerms(item, q) ==
  LET query_terms == {Lower(t) : t \in Range(q.keywords \o q.semantic_concepts \o q.synonyms)}
      item_terms == {Lower(t) : t \in Range(item.title \o item.description \o item.tags)}
  IN IF query_terms = {} THEN SCALE \div 2
     ELSE IF item_terms = {} THEN 0
     ELSE Min(SCALE, (Cardinality(query_terms \cap item_terms) * SCALE)
                       \div Cardinality(item_terms))

_calculate_keyword_score(item, q) ==
  LET query_terms == {Lower(t) : t \in Range(q.keywords \o q.semantic_concepts \o q.synonyms)}
      item_terms == {Lower(t) : t \in Range(item.title \o item.description \o item.tags)}
  IN IF query_terms = {} THEN SCALE \div 2
     ELSE IF item_terms = {} THEN 0
     ELSE Min(SCALE, (Cardinality(query_terms \cap item_terms) * SCALE)
                       \div Cardinality(query_terms))

QualityScoreStrictTiers(item) ==
  LET pixels == item.width * item.height
  IN IF pixels > 4000000 THEN SCALE
     ELSE IF pixels > 2000000 THEN (85 * SCALE) \div 100
     ELSE IF pixels > 1000000 THEN (7 * SCALE) \div 10
     ELSE IF pixels > 500000 THEN (5 * SCALE) \div 10
     ELSE (3 * SCALE) \div 10

_calculate_quality_score(item) ==
  LET pixels == item.width * item.height
  IN IF pixels >= 4000000 THEN SCALE
     ELSE IF pixels >= 2000000 THEN (85 * SCALE) \div 100
     ELSE IF pixels >= 1000000 THEN (7 * SCALE) \div 10
     ELSE IF pixels >= 500000 THEN (5 * SCALE) \div 10
     ELSE (3 * SCALE) \div 10

\* floor(log10(x)) for 1 <= x < 10^9
ILog10(x) == CHOOSE k \in 0..8 : 10^k <= x /\ x < 10^(k + 1)

\* MediaScorer._calculate_popularity_score; popularity is kept doubled
\* (views + 3 downloads + 4 likes) and log10 is taken to its integer part,
\* which is exact when popularity + 1 is a power of ten.
_calculate_popularity_score(item) ==
  LET popularity2 == item.views + 3 * item.downloads + 4 * item.likes
  IN IF popularity2 <= 0 THEN (3 * SCALE) \div 10
     ELSE Min(SCALE, (ILog10((popularity2 + 2) \div 2) * SCALE) \div 5)

_calculate_recency_score(item) ==
  IF ~ item.created_at.known THEN (5 * SCALE) \div 10
  ELSE LET age_days == item.created_at.age_days
       IN IF age_days <= 30 THEN SCALE
          ELSE IF age_days <= 180 THEN (8 * SCALE) \div 10
          ELSE IF age_days <= 365 THEN (6 * SCALE) \div 10
          ELSE IF age_days <= 730 THEN (4 * SCALE) \div 10
          ELSE (2 * SCALE) \div 10

_count_sources(its) ==
  [s \in {its[i].source : i \in DOMAIN its} |->
     Cardinality({i \in DOMAIN its : its[i].source = s})]

DiversityScoreShare(item, source_counts) ==
  LET total == SumOver(DOMAIN source_counts, source_counts)
      item_source_count ==
        IF item.source \in DOMAIN source_counts THEN source_counts[item.source] ELSE 0
  IN IF total = 0 THEN SCALE \div 2
     ELSE (item_source_count * SCALE) \div total

_calculate_diversity_score(item, source_counts) ==
  LET total == SumOver(DOMAIN source_counts, source_counts)
      item_source_count ==
        IF item.source \in DOMAIN source_counts THEN source_counts[item.source] ELSE 0
  IN IF total = 0 THEN SCALE \div 2
     ELSE SCALE - (item_source_count * SCALE) \div total

\* The six factor scores of _score_item.
FactorScores(item, q, query_embedding, item_embedding, source_counts) ==
  [f \in Factors |->
     CASE f = "semantic_relevance" -> SemanticRelevance(query_embedding, item_embedding)
       [] f = "keyword_match" -> _calculate_keyword_score(item, q)
       [] f = "visual_quality" -> _calculate_quality_score(item)
       [] f = "popularity" -> _calculate_popularity_score(item)
       [] f = "recency" -> _calculate_recency_score(item)
       [] OTHER -> _calculate_diversity_score(item, source_counts)]

FinalScoreUnweighted(scores, w) ==
  LET sum == SumOver(DOMAIN scores, scores)
  IN [n |-> Min(SCALE * Cardinality(DOMAIN scores), Max(0, sum)),
      d |-> SCALE * Cardinality(DOMAIN scores)]

\* sum(scores.get(factor, 0) * weight ...) then min(1.0, max(0.0, .)), as the
\* rational n / d with d = SCALE * w.den.
FinalScore(scores, w) ==
  LET sum == SumOver(DOMAIN w.num,
                     [f \in DOMAIN w.num |->
                        (IF f \in DOMAIN scores THEN scores[f] ELSE 0) * w.num[f]])
  IN [n |-> Min(SCALE * w.den, Max(0, sum)), d |-> SCALE * w.den]

ScoreItemKeepPrior(item, q, query_embedding, item_embedding, source_counts, w) ==
  LET scores == FactorScores(item, q, query_embedding, item_embedding, source_counts)
  IN IF item.final_score.n > 0 THEN item
     ELSE [item EXCEPT !.relevance_score = scores["semantic_relevance"],
                       !.quality_score = scores["visual_quality"],
                       !.final_score = FinalScore(scores, w)]

_score_item(item, q, query_embedding, item_embedding, source_counts, w) ==
  LET scores == FactorScores(item, q, query_embedding, item_embedding, source_counts)
  IN [item EXCEPT !.relevance_score = scores["semantic_relevance"],
                  !.quality_score = scores["visual_quality"],
                  !.final_score = FinalScore(scores, w)]

EmbeddingsOfNoSplit(e) ==
  IF e.state = "returned" /\ e.vectors # <<>>
    THEN [query_embedding |-> Head(e.vectors), item_embeddings |-> e.vectors]
  ELSE [query_embedding |-> <<>>, item_embeddings |-> <<>>]

\* try: query_embedding, item_embeddings = await self._get_embeddings(...)
\* except Exception: both stay None.  `e` is the finished embed_batch call;
\* embeddings[0] of an empty response raises IndexError inside the try.
EmbeddingsOf(e) ==
  IF e.state = "returned" /\ e.vectors # <<>>
    THEN [query_embedding |-> Head(e.vectors), item_embeddings |-> Tail(e.vectors)]
  ELSE [query_embedding |-> <<>>, item_embeddings |-> <<>>]

\* The scoring loop of score_items over `its`, from position i.  The items are
\* scored in place; item_embeddings[i] past the end of a non-empty
\* item_embeddings raises IndexError and leaves the rest unscored.
RECURSIVE ScoreLoop(_, _, _, _, _, _)
ScoreLoop(its, i, q, emb, source_counts, w) ==
  IF i > Len(its) THEN [items |-> its, raised |-> "none"]
  ELSE IF emb.item_embeddings # <<>> /\ i > Len(emb.item_embeddings)
    THEN [items |-> its, raised |-> "IndexError"]
  ELSE LET item_embedding ==
             IF emb.item_embeddings # <<>> THEN emb.item_embeddings[i] ELSE <<>>
       IN ScoreLoop([its EXCEPT ![i] = _score_item(its[i], q, emb.query_embedding,
                                                   item_embedding, source_counts, w)],
                    i + 1, q, emb, source_counts, w)

\* score_items after the embedding request has finished (or was never made).
ScoreItems(its, q, e, w) ==
  ScoreLoop(its, 1, q, EmbeddingsOf(e), _count_sources(its), w)

\* ------------------------------------------------------------------ ranker
\* final_score comparisons on the exact rationals
RatGeq(a, b) == a.n * b.d >= b.n * a.d
RatGt(a, b) == a.n * b.d > b.n * a.d

MinQuality(m) == [n |-> m, d |-> SCALE]

FilterByQualityScore(scored, m) ==
  IF m > 0 THEN SelectSeq(scored, LAMBDA it : it.quality_score >= m) ELSE scored

\* if min_quality_score > 0: keep the items with final_score >= min_quality_score
FilterMinQuality(scored, m) ==
  IF m > 0 THEN SelectSeq(scored, LAMBDA it : RatGeq(it.final_score, MinQuality(m)))
  ELSE scored

InsertBeforeTies(sorted, x) ==
  LET k == Cardinality({i \in DOMAIN sorted : RatGt(sorted[i].final_score, x.final_score)})
  IN SubSeq(sorted, 1, k) \o <<x>> \o SubSeq(sorted, k + 1, Len(sorted))

\* Insert x after every element whose final_score is >= its own.
InsertDesc(sorted, x) ==
  LET k == Cardinality({i \in DOMAIN sorted : RatGeq(sorted[i].final_score, x.final_score)})
  IN SubSeq(sorted, 1, k) \o <<x>> \o SubSeq(sorted, k + 1, Len(sorted))

\* list.sort(key=final_score, reverse=True): stable, descending.
RECURSIVE SortDescFrom(_, _)
SortDescFrom(sorted, rest) ==
  IF rest = <<>> THEN sorted
  ELSE SortDescFrom(InsertDesc(sorted, Head(rest)), Tail(rest))

SortDesc(seq) == SortDescFrom(<<>>, seq)

RankFinishCountsDropped(scored, m, lim, dups) ==
  LET limited == PySliceTo(SortDesc(FilterMinQuality(scored, m)), lim)
  IN [items |-> limited, duplicates_removed |-> dups + Len(scored) - Len(limited)]

\* process from the end of score_items to the return.
RankFinish(scored, m, lim, dups) ==
  [items |-> PySliceTo(SortDesc(FilterMinQuality(scored, m)), lim),
   duplicates_removed |-> dups]

\* --- inputs of the rank specification
RankPool ==
  {MediaItem("id1", MediaUrls("u1", "u2", NoUrl), "pexels", 3840, 2160,
             <<>>, <<"Sunset">>, 18, Aged(10)),
   [MediaItem("id2", MediaUrls("u2", NoUrl, NoUrl), "pixabay", 640, 480,
              <<>>, <<>>, 1998, Aged(400))
      EXCEPT !.relevance_score = SCALE, !.quality_score = SCALE,
             !.final_score = [n |-> 1, d |-> 1]],
   MediaItem("id3", MediaUrls("u3", NoUrl, NoUrl), "pexels", 1920, 1080,
             <<>>, <<"night">>, 0, NoDate),
   MediaItem("id4", MediaUrls("u4", NoUrl, NoUrl), "pexels", 1920, 1080,
             <<>>, <<"night">>, 0, NoDate)}

Queries ==
  {[english_query |-> <<"sunset">>, keywords |-> <<"sunset", "ocean">>,
    semantic_concepts |-> <<>>, synonyms |-> <<>>],
   [english_query |-> <<"ocean">>, keywords |-> <<>>,
    semantic_concepts |-> <<>>, synonyms |-> <<>>]}

\* weights arguments: None, one factor at 1.0, all six at 0, a partial map
WeightArgs ==
  {NoneWeights,
   GivenWeights([f \in Factors |-> IF f = "visual_quality" THEN WUNIT ELSE 0]),
   GivenWeights([f \in Factors |-> 0]),
   GivenWeights([f \in {"keyword_match"} |-> WUNIT \div 2])}

\* min_quality_score values: 0, 0.5 and 0.85
MinQualityScores == {0, SCALE \div 2, (85 * SCALE) \div 100}

Init ==
  /\ pc = "init"
  /\ items \in BoundedSeq(RankPool, MaxRankLen)
  /\ batches = <<>>
  /\ DedupIdle
  /\ ConcIdle
  /\ UtilIdle
  /\ query \in Queries
  /\ limit \in (0 - 1)..MaxLimit
  /\ min_quality_score \in MinQualityScores
  /\ weights_arg \in WeightArgs
  /\ weights = MediaScorerWeights(weights_arg)
  /\ openai_client \in BOOLEAN
  /\ embed = NoEmbed
  /\ dups_removed = 0
  /\ scored_items = <<>>
  /\ result = NoRank
  /\ raised = "none"

\* RankerAgent.process up to its first suspension: the empty-input return, or
\* deduplication and then either the embed_batch request (a provider is
\* configured) or, without a provider, scoring, filter, sort and limit.
RankCall ==
  /\ pc = "init"
  /\ IF items = <<>>
       THEN /\ pc' = "done"
            /\ result' = NoRank
            /\ UNCHANGED <<embed, dups_removed, scored_items, raised>>
     ELSE LET dd == deduplicate_results(items)
          IN /\ dups_removed' = dd.removed
             /\ IF openai_client
                  THEN /\ pc' = "awaiting"
                       /\ embed' = [state |-> "pending",
                                    texts |-> AllTexts(dd.unique, query),
                                    vectors |-> <<>>]
                       /\ scored_items' = dd.unique
                       /\ UNCHANGED <<result, raised>>
                ELSE LET sc == ScoreItems(dd.unique, query, embed, weights)
                     IN /\ pc' = "done"
                        /\ scored_items' = sc.items
                        /\ result' = RankFinish(sc.items, min_quality_score, limit, dd.removed)
                        /\ UNCHANGED <<embed, raised>>
  /\ UNCHANGED <<items, batches, dedupVars, query, limit, min_quality_score,
                 weights_arg, weights, openai_client, concVars, utilVars>>

\* process resumed with the finished embed_batch call e.
RankResume(e) ==
  LET sc == ScoreItems(scored_items, query, e, weights)
  IN /\ embed' = e
     /\ scored_items' = sc.items
     /\ raised' = sc.raised
     /\ IF sc.raised = "none"
          THEN /\ pc' = "done"
               /\ result' = RankFinish(sc.items, min_quality_score, limit, dups_removed)
        ELSE /\ pc' = "raised"
             /\ UNCHANGED result
     /\ UNCHANGED <<items, batches, dedupVars, query, limit, min_quality_score,
                    weights_arg, weights, openai_client, dups_removed, concVars, utilVars>>

\* embed_batch returns k vectors, in text order: all of them (k = number of
\* texts), or a response cut short.
EmbedReturn ==
  /\ pc = "awaiting"
  /\ \E k \in 0..Len(embed.texts) :
       RankResume([embed EXCEPT !.state = "returned",
                                !.vectors = [i \in 1..k |-> EmbedText(embed.texts[i])]])

\* embed_batch raises.
EmbedRaise ==
  /\ pc = "awaiting"
  /\ RankResume([embed EXCEPT !.state = "raised"])

Next == RankCall \/ EmbedReturn \/ EmbedRaise

Spec == Init /\ [][Next]_vars

\* ------------------------------------- score_items called on its own
\* Items that differ only in title and tags, and one item of another source
\* and size that carries scores from an earlier scoring.
ScorePool ==
  {MediaItem(IF title = <<>> THEN "id1" ELSE "id2", MediaUrls("u1", NoUrl, NoUrl),
             "pexels", 1920, 1080, title, tags, 18, Aged(10)) :
     title \in {<<>>, <<"sunset">>},
     tags \in {<<>>, <<"Sunset">>, <<"night", "ocean">>, <<"dusk">>}}
  \cup
  {[MediaItem("id3", MediaUrls("u3", NoUrl, NoUrl), "pixabay", 640, 480,
              <<>>, <<>>, 1998, Aged(400))
      EXCEPT !.relevance_score = SCALE, !.quality_score = SCALE,
             !.final_score = [n |-> 1, d |-> 1]]}

\* weights arguments: None, the empty map, one factor at 1.0, all six at 0,
\* a partial map summing to 0.5, a partial map summing to 1.0
ScoreWeightArgs ==
  {NoneWeights,
   GivenWeights(<<>>),
   GivenWeights([f \in Factors |-> IF f = "visual_quality" THEN WUNIT ELSE 0]),
   GivenWeights([f \in Factors |-> 0]),
   GivenWeights([f \in {"keyword_match"} |-> WUNIT \div 2]),
   GivenWeights([f \in {"keyword_match", "visual_quality"} |->
                   IF f = "keyword_match" THEN WUNIT \div 4 ELSE (3 * WUNIT) \div 4])}

InitScore ==
  /\ pc = "init"
  /\ items \in BoundedSeq(ScorePool, MaxScoreLen)
  /\ batches = <<>>
  /\ DedupIdle
  /\ ConcIdle
  /\ UtilIdle
  /\ query \in Queries
  /\ limit = 0
  /\ min_quality_score = 0
  /\ weights_arg \in ScoreWeightArgs
  /\ weights = MediaScorerWeights(weights_arg)
  /\ openai_client \in BOOLEAN
  /\ embed = NoEmbed
  /\ dups_removed = 0
  /\ scored_items = <<>>
  /\ result = NoRank
  /\ raised = "none"

ScoreCallNoEmptyCheck ==
  /\ pc = "init"
  /\ IF openai_client
       THEN /\ pc' = "score_awaiting"
            /\ embed' = [state |-> "pending", texts |-> AllTexts(items, query),
                         vectors |-> <<>>]
            /\ scored_items' = items
     ELSE /\ pc' = "scored"
          /\ scored_items' = ScoreItems(items, query, embed, weights).items
          /\ UNCHANGED embed
  /\ UNCHANGED <<items, batches, dedupVars, query, limit, min_quality_score,
                 weights_arg, weights, openai_client, dups_removed, result, raised,
                 concVars, utilVars>>

\* MediaScorer.score_items up to its first suspension: the empty-input return,
\* the embed_batch request, or (no provider) the scoring of every item.
ScoreCall ==
  /\ pc = "init"
  /\ IF items = <<>>
       THEN /\ pc' = "scored"
            /\ scored_items' = <<>>
            /\ UNCHANGED embed
     ELSE IF openai_client
       THEN /\ pc' = "score_awaiting"
            /\ embed' = [state |-> "pending", texts |-> AllTexts(items, query),
                         vectors |-> <<>>]
            /\ scored_items' = items
     ELSE /\ pc' = "scored"
          /\ scored_items' = ScoreItems(items, query, embed, weights).items
          /\ UNCHANGED embed
  /\ UNCHANGED <<items, batches, dedupVars, query, limit, min_quality_score,
                 weights_arg, weights, openai_client, dups_removed, result, raised,
                 concVars, utilVars>>

\* score_items resumed with the finished embed_batch call e.
ScoreResume(e) ==
  LET sc == ScoreItems(scored_items, query, e, weights)
  IN /\ embed' = e
     /\ scored_items' = sc.items
     /\ raised' = sc.raised
     /\ pc' = IF sc.raised = "none" THEN "scored" ELSE "score_raised"
     /\ UNCHANGED <<items, batches, dedupVars, query, limit, min_quality_score,
                    weights_arg, weights, openai_client, dups_removed, result,
                    concVars, utilVars>>

ScoreEmbedReturn ==
  /\ pc = "score_awaiting"
  /\ \E k \in 0..Len(embed.texts) :
       ScoreResume([embed EXCEPT !.state = "returned",
                                 !.vectors = [i \in 1..k |-> EmbedText(embed.texts[i])]])

ScoreEmbedRaise ==
  /\ pc = "score_awaiting"
  /\ ScoreResume([embed EXCEPT !.state = "raised"])

NextScore == ScoreCall \/ ScoreEmbedReturn \/ ScoreEmbedRaise

SpecScore == InitScore /\ [][NextScore]_vars

\* ------------------------------------------ the four entry points together
\* One caller holding an item list and a batch list calls one of
\* deduplicate_results, deduplicate_across_batches, RankerAgent.process and
\* MediaScorer.score_items on them.
InitApi ==
  /\ pc = "init"
  /\ items \in BoundedSeq(RankPool, MaxApiLen)
  /\ batches \in BoundedSeq(BoundedSeq(AcrossPool, MaxApiLen), 1)
  /\ DedupIdle
  /\ ConcIdle
  /\ UtilIdle
  /\ query \in Queries
  /\ limit = MaxLimit
  /\ min_quality_score = 0
  /\ weights_arg = NoneWeights
  /\ weights = MediaScorerWeights(weights_arg)
  /\ openai_client \in BOOLEAN
  /\ embed = NoEmbed
  /\ dups_removed = 0
  /\ scored_items = <<>>
  /\ result = NoRank
  /\ raised = "none"

NextApi ==
  \/ DedupCall
  \/ AcrossCall
  \/ RankCall \/ EmbedReturn \/ EmbedRaise
  \/ ScoreCall \/ ScoreEmbedReturn \/ ScoreEmbedRaise

SpecApi == InitApi /\ [][NextApi]_vars

\* ------------------------------- concurrent rank calls on one RankerAgent
\* Two coroutines run RankerAgent.execute on the same agent (asyncio, one
\* thread): a call runs without interruption up to its await of embed_batch
\* and from its resumption to its return.  `calls[c]` is the frame of call c
\* (its arguments and locals); self.scorer.weights, self.openai_client and
\* self._last_cache_hit belong to the shared agent.
CallIds == {1, 2}

Frame(its, q, lim, m) ==
  [pc |-> "init", items |-> its, query |-> q, limit |-> lim, min_quality_score |-> m,
   embed |-> NoEmbed, dups_removed |-> 0, scored_items |-> <<>>,
   result |-> NoRank, raised |-> "none"]

\* process from its start to its first suspension or its return.
ProcessStart(fr, client, w) ==
  IF fr.items = <<>> THEN [fr EXCEPT !.pc = "done", !.result = NoRank]
  ELSE LET dd == deduplicate_results(fr.items)
       IN IF client
            THEN [fr EXCEPT !.pc = "awaiting",
                            !.dups_removed = dd.removed,
                            !.scored_items = dd.unique,
                            !.embed = [state |-> "pending",
                                       texts |-> AllTexts(dd.unique, fr.query),
                                       vectors |-> <<>>]]
          ELSE LET sc == ScoreItems(dd.unique, fr.query, fr.embed, w)
               IN [fr EXCEPT !.pc = "done",
                             !.dups_removed = dd.removed,
                             !.scored_items = sc.items,
                             !.result = RankFinish(sc.items, fr.min_quality_score,
                                                   fr.limit, dd.removed)]

\* process from its resumption with the finished embed_batch call e.
ProcessResume(fr, e, w) ==
  LET sc == ScoreItems(fr.scored_items, fr.query, e, w)
  IN IF sc.raised = "none"
       THEN [fr EXCEPT !.pc = "done", !.embed = e, !.scored_items = sc.items,
                       !.result = RankFinish(sc.items, fr.min_quality_score,
                                             fr.limit, fr.dups_removed)]
     ELSE [fr EXCEPT !.pc = "raised", !.embed = e, !.scored_items = sc.items,
                     !.raised = sc.raised]

RequestTextsLastSent(c) ==
  IF \E o \in CallIds \ {c} : calls[o].pc = "awaiting"
    THEN calls[CHOOSE o \in CallIds \ {c} : calls[o].pc = "awaiting"].embed.texts
  ELSE calls[c].embed.texts

\* The texts the provider answers for call c: the all_texts list that call
\* passed to embed_batch.
RequestTexts(c) == calls[c].embed.texts

\* The candidate lists of the two calls share no item.
ConcPool(c) ==
  IF c = 1 THEN {it \in RankPool : it.id \in {"id1", "id2"}}
  ELSE {it \in RankPool : it.id \in {"id3", "id4"}}

InitConc ==
  /\ pc = "concurrent"
  /\ items = <<>>
  /\ batches = <<>>
  /\ DedupIdle
  /\ query = NoQuery /\ limit = 0 /\ min_quality_score = 0
  /\ embed = NoEmbed /\ dups_removed = 0 /\ scored_items = <<>>
  /\ result = NoRank /\ raised = "none"
  /\ weights_arg \in {NoneWeights, GivenWeights([f \in {"keyword_match"} |-> WUNIT \div 2])}
  /\ weights = MediaScorerWeights(weights_arg)
  /\ openai_client \in BOOLEAN
  /\ _last_cache_hit = FALSE
  /\ UtilIdle
  /\ \E its1 \in BoundedSeq(ConcPool(1), MaxConcLen),
        its2 \in BoundedSeq(ConcPool(2), MaxConcLen),
        q1 \in Queries, q2 \in Queries :
       calls = <<Frame(its1, q1, MaxLimit, 0), Frame(its2, q2, MaxLimit, SCALE \div 2)>>

\* BaseAgent.execute of call c up to the first suspension of process (the
\* ranker has cache_enabled = False, so no cache is consulted).
ConcCall(c) ==
  /\ calls[c].pc = "init"
  /\ _last_cache_hit' = FALSE
  /\ calls' = [calls EXCEPT ![c] = ProcessStart(calls[c], openai_client, weights)]
  /\ UNCHANGED <<pc, items, batches, dedupVars, rankVars, utilVars>>

\* embed_batch of call c returns k vectors, in text order.
ConcEmbedReturn(c) ==
  /\ calls[c].pc = "awaiting"
  /\ \E k \in 0..Len(calls[c].embed.texts) :
       calls' = [calls EXCEPT ![c] =
                   ProcessResume(calls[c],
                                 [calls[c].embed EXCEPT
                                    !.state = "returned",
                                    !.vectors = [i \in 1..k |-> EmbedText(RequestTexts(c)[i])]],
                                 weights)]
  /\ UNCHANGED <<pc, items, batches, dedupVars, rankVars, _last_cache_hit, utilVars>>

\* embed_batch of call c raises.
ConcEmbedRaise(c) ==
  /\ calls[c].pc = "awaiting"
  /\ calls' = [calls EXCEPT ![c] =
                 ProcessResume(calls[c], [calls[c].embed EXCEPT !.state = "raised"], weights)]
  /\ UNCHANGED <<pc, items, batches, dedupVars, rankVars, _last_cache_hit, utilVars>>

NextConc ==
  \E c \in CallIds : ConcCall(c) \/ ConcEmbedReturn(c) \/ ConcEmbedRaise(c)

SpecConc == InitConc /\ [][NextConc]_vars

\* ------------------------------------------------ deduplication: properties
Variants(it) == {it.urls.large, it.urls.medium} \ {NoUrl}

\* `later` repeats `earlier` for deduplicate_results: same id, or its original
\* URL is the original, large or medium URL of `earlier`.
Clash(earlier, later) ==
  \/ later.id = earlier.id
  \/ later.urls.original = earlier.urls.original
  \/ later.urls.original \in Variants(earlier)

\* The same for deduplicate_across_batches: same id or same original URL.
ClashAcross(earlier, later) ==
  \/ later.id = earlier.id
  \/ later.urls.original = earlier.urls.original

\* The accepted positions of a scan that drops a position exactly when it
\* clashes with an earlier accepted position (clash is "full" or "across").
AcceptedIdx(s, kind) ==
  LET acc[i \in DOMAIN s] ==
        ~ \E j \in 1..(i - 1) :
            /\ IF kind = "full" THEN Clash(s[j], s[i]) ELSE ClashAcross(s[j], s[i])
            /\ acc[j]
  IN {i \in DOMAIN s : acc[i]}

C4_DuplicateFree ==
  pc # "init" =>
    \A i, j \in DOMAIN dd1.unique :
      i < j => /\ dd1.unique[i].id # dd1.unique[j].id
               /\ dd1.unique[i].urls.original # dd1.unique[j].urls.original
               /\ dd1.unique[j].urls.original \notin Variants(dd1.unique[i])

C4_Witness ==
  /\ pc = "once" /\ dd1.removed > 0 /\ Len(dd1.unique) >= 2
  /\ \E i \in DOMAIN items : \E j \in DOMAIN items :
       i < j /\ items[j].id # items[i].id /\ items[j].urls.original \in Variants(items[i])

\* C5: the output of deduplicate is a subsequence of the input and
\* removed_count = len(input) - len(unique).
C5_Subsequence ==
  pc # "init" =>
    /\ \E K \in SUBSET (DOMAIN items) : dd1.unique = SubSeqAt(items, K, 1)
    /\ dd1.removed = Len(items) - Len(dd1.unique)

\* The middle item of three is removed and the two survivors keep their order.
C5_Witness ==
  /\ pc = "once" /\ Len(items) = 3 /\ dd1.removed = 1
  /\ dd1.unique = <<items[1], items[3]>> /\ items[1] # items[3]

\* C6: deduplicate applied to its own output returns that output and removes 0.
C6_Idempotent ==
  pc = "twice" => dd2.unique = dd1.unique /\ dd2.removed = 0

\* A second pass over an output whose items share a large/medium variant,
\* after a first pass that removed something.
C6_Witness ==
  /\ pc = "twice" /\ dd1.removed > 0 /\ Len(dd1.unique) >= 2
  /\ \E i, j \in DOMAIN dd1.unique :
       i < j /\ Variants(dd1.unique[i]) \cap Variants(dd1.unique[j]) # {}

\* Number of items in the batches before batch b.
Offset(bs, b) == Len(Flatten(SubSeq(bs, 1, b - 1)))

\* C7: deduplicate_across returns one output batch per input batch, in order;
\* each is its input batch restricted, in order, to the items that repeat
\* neither the id nor the original URL of an item accepted earlier in any
\* batch; total_removed counts every dropped item.
C7_AcrossRule ==
  pc = "across" =>
    LET flat == Flatten(batches)
        K == AcceptedIdx(flat, "across")
    IN /\ Len(across.batches) = Len(batches)
       /\ \A b \in DOMAIN batches :
            across.batches[b] =
              SubSeqAt(batches[b],
                       {i \in DOMAIN batches[b] : Offset(batches, b) + i \in K}, 1)
       /\ across.removed = Len(flat) - Cardinality(K)

\* Two full batches: one item dropped inside the first batch, one item of the
\* second batch dropped for an item of the first and one kept.
C7_Witness ==
  /\ pc = "across" /\ Len(batches) = 2
  /\ Len(batches[1]) = 2 /\ Len(batches[2]) = 2
  /\ Len(across.batches[1]) = 1 /\ Len(across.batches[2]) = 1
  /\ across.removed = 2
  /\ batches[2][1] # batches[1][1] /\ batches[2][2] # batches[1][1]

\* Position p of the concatenated batches holds an item that repeats no id and
\* no original URL accepted so far by deduplicate_across (positions KA), and
\* whose original URL is a large/medium URL of an earlier item accepted by
\* deduplicate (positions KD).
VariantCollision(flat, KA, KD, p) ==
  /\ \A j \in KA : j < p => ~ ClashAcross(flat[j], flat[p])
  /\ \E j \in KD : j < p /\ flat[p].urls.original \in Variants(flat[j])

RatEq(a, b) == a.n * b.d = b.n * a.d

\* The items of `scored` that the score filter lets through.
PassesFilter(it) ==
  min_quality_score > 0 => RatGeq(it.final_score, MinQuality(min_quality_score))

\* C1: with limit >= 1 rank returns at most `limit` items, and with
\* min_quality_score > 0 every returned item has final_score >= min_quality_score.
C1_RankLimitThreshold ==
  (pc = "done" /\ limit >= 1) =>
    /\ Len(result.items) <= limit
    /\ min_quality_score > 0 =>
         \A i \in DOMAIN result.items :
           RatGeq(result.items[i].final_score, MinQuality(min_quality_score))

\* Three deduplicated items, two of them at or above a positive threshold,
\* limit 1: the filter drops one item and the limit another.
C1_Witness ==
  /\ pc = "done" /\ limit = 1 /\ min_quality_score > 0
  /\ Len(scored_items) = 3
  /\ Cardinality({i \in DOMAIN scored_items : PassesFilter(scored_items[i])}) = 2
  /\ Len(result.items) = 1

\* C2: with limit >= 1 the returned list is the first `limit` elements (all of
\* them when fewer survive) of the deduplicated, scored items that pass the
\* filter, ordered by descending final_score with ties in their deduplicated
\* order; an item scoring exactly the threshold passes.
C2_RankOrder ==
  (pc = "done" /\ limit >= 1) =>
    LET U == deduplicate_results(items).unique
        F == SelectSeq(scored_items, PassesFilter)
        before(j, i) ==
          \/ RatGt(F[j].final_score, F[i].final_score)
          \/ RatEq(F[j].final_score, F[i].final_score) /\ j < i
        pos(i) == 1 + Cardinality({j \in DOMAIN F : before(j, i)})
        expected == [k \in DOMAIN F |-> F[CHOOSE i \in DOMAIN F : pos(i) = k]]
    IN /\ [i \in DOMAIN scored_items |-> scored_items[i].id] = [i \in DOMAIN U |-> U[i].id]
       /\ result.items = SubSeq(expected, 1, Min(limit, Len(F)))

\* Two items tie exactly on the positive threshold and are returned in their
\* deduplicated order; a third item is filtered out.
C2_Witness ==
  /\ pc = "done" /\ limit = 2 /\ min_quality_score > 0
  /\ Len(scored_items) = 3 /\ Len(result.items) = 2
  /\ RatEq(result.items[1].final_score, MinQuality(min_quality_score))
  /\ RatEq(result.items[2].final_score, MinQuality(min_quality_score))
  /\ \E i, j \in DOMAIN scored_items :
       i < j /\ scored_items[i] = result.items[1] /\ scored_items[j] = result.items[2]

InUnit(x) == 0 <= x /\ x <= SCALE

ScoresInRange(it) ==
  /\ InUnit(it.relevance_score)
  /\ InUnit(it.quality_score)
  /\ it.final_score.d > 0
  /\ 0 <= it.final_score.n /\ it.final_score.n <= it.final_score.d

\* C9: once scoring has run, final_score, relevance_score and quality_score of
\* every item (scored, or returned by rank) lie in [0, 1], for every weight
\* configuration.
C9_ScoreBounds ==
  pc \in {"done", "raised"} =>
    /\ \A i \in DOMAIN scored_items : ScoresInRange(scored_items[i])
    /\ \A i \in DOMAIN result.items : ScoresInRange(result.items[i])

\* One factor at weight 1.0, embeddings returned in full: an item reaches
\* final_score 1.0 and an item has relevance_score 0.0.
C9_Witness ==
  /\ pc = "done" /\ embed.state = "returned"
  /\ Len(embed.vectors) = Len(embed.texts)
  /\ DOMAIN weights_arg.map = Factors /\ weights_arg.map["visual_quality"] = WUNIT
  /\ \E i \in DOMAIN result.items : result.items[i].final_score.n = result.items[i].final_score.d
  /\ \E i \in DOMAIN result.items : result.items[i].relevance_score = 0

\* C10: when embed_batch raises, rank raises nothing; every item is scored
\* with relevance_score 0.5 and with the other five factors as computed
\* without embeddings; with min_quality_score = 0 and limit >= 1 the returned
\* list is not empty.
C10_EmbedFailureDefaults ==
  embed.state = "raised" =>
    LET U == deduplicate_results(items).unique
        usual(it) == FactorScores(it, query, <<>>, <<>>, _count_sources(U))
        expected(it) ==
          [f \in Factors |-> IF f = "semantic_relevance" THEN SCALE \div 2 ELSE usual(it)[f]]
    IN /\ pc = "done" /\ raised = "none"
       /\ Len(scored_items) = Len(U)
       /\ \A i \in DOMAIN scored_items :
            /\ scored_items[i].relevance_score = SCALE \div 2
            /\ scored_items[i].quality_score = _calculate_quality_score(U[i])
            /\ scored_items[i].final_score = FinalScore(expected(U[i]), weights)
       /\ \A i \in DOMAIN result.items : result.items[i] \in Range(scored_items)
       /\ (min_quality_score = 0 /\ limit >= 1) => result.items # <<>>

C10_Witness ==
  /\ embed.state = "raised" /\ pc = "done"
  /\ min_quality_score = 0 /\ limit >= 2
  /\ Len(result.items) = 2
  /\ result.items[1].relevance_score = SCALE \div 2
  /\ result.items[1].final_score.n > 0

\* C11: when embed_batch returns fewer vectors than the texts requested (any
\* number from 0 up to the number of items), rank does not raise and every
\* item of the call is scored with the default semantic_relevance 0.5.
C11_MalformedResponseRecovered ==
  (embed.state = "returned" /\ Len(embed.vectors) < Len(embed.texts)) =>
    /\ pc = "done" /\ raised = "none"
    /\ \A i \in DOMAIN scored_items : scored_items[i].relevance_score = SCALE \div 2

\* C14: duplicates_removed returned by rank is the removed count of
\* deduplicate_results on the input items, whatever min_quality_score and
\* limit are: filtered or truncated items are not counted.
C14_DuplicatesRemoved ==
  pc = "done" => result.duplicates_removed = deduplicate_results(items).removed

\* One duplicate removed, then the filter drops one of the two remaining items.
C14_Witness ==
  /\ pc = "done" /\ min_quality_score > 0 /\ limit >= 1
  /\ result.duplicates_removed = 1
  /\ Len(scored_items) = 2 /\ Len(result.items) = 1

\* C16: a rank call with a negative limit does not return a result list (it
\* fails with a precondition violation).
C16_NegativeLimitRejected ==
  ~ (limit < 0 /\ pc = "done")

\* --------------------------------------------------- score_items: properties
\* An item without the three score fields score_items writes.
ResetScores(it) ==
  [it EXCEPT !.relevance_score = 0, !.quality_score = 0, !.final_score = Zero]

Scores(it) == <<it.relevance_score, it.quality_score, it.final_score>>

\* C13: score_items returns its input items in the same order and number;
\* their relevance_score, quality_score and final_score are the values
\* computed for the item whatever the fields held before; every other field is
\* unchanged.
C13_ScoreFrame ==
  pc = "scored" =>
    LET fresh == [i \in DOMAIN items |-> ResetScores(items[i])]
        expected == ScoreItems(fresh, query, embed, weights).items
    IN /\ Len(scored_items) = Len(items)
       /\ \A i \in DOMAIN scored_items :
            /\ ResetScores(scored_items[i]) = ResetScores(items[i])
            /\ Scores(scored_items[i]) = Scores(expected[i])

\* An item that came in with scores 1.0 leaves with other scores, behind an
\* item that scores higher than it does.
C13_Witness ==
  /\ pc = "scored" /\ Len(scored_items) = 2
  /\ items[1].final_score = [n |-> 1, d |-> 1]
  /\ scored_items[1].quality_score < SCALE
  /\ RatGt(scored_items[2].final_score, scored_items[1].final_score)

\* self.weights before normalisation
RawWeights(arg) == IF arg.given /\ DOMAIN arg.map # {} THEN arg.map ELSE DEFAULT_WEIGHTS

\* C17: when the raw weights sum to more than 0 the constructed weights sum to
\* 1.0 and keep the raw ratios; when they sum to 0 they are left as given and
\* every scored item has final_score 0.
C17_WeightsNormalized ==
  LET raw == RawWeights(weights_arg)
      total == SumOver(DOMAIN raw, raw)
  IN /\ DOMAIN weights.num = DOMAIN raw
     /\ total > 0 =>
          /\ SumOver(DOMAIN weights.num, weights.num) = weights.den
          /\ \A f \in DOMAIN raw : weights.num[f] * total = raw[f] * weights.den
     /\ total = 0 =>
          /\ \A f \in DOMAIN raw : weights.num[f] * WUNIT = raw[f] * weights.den
          /\ pc = "scored" =>
               \A i \in DOMAIN scored_items :
                 scored_items[i].final_score.n = 0 /\ scored_items[i].final_score.d > 0

\* A map whose raw sum is 0.5 has been normalised and used to score two items.
C17_Witness ==
  /\ pc = "scored" /\ Len(scored_items) = 2
  /\ weights_arg.given
  /\ SumOver(DOMAIN weights_arg.map, weights_arg.map) = WUNIT \div 2
  /\ weights.num["keyword_match"] = weights.den
  /\ scored_items[1].final_score.n > 0

\* C18: a caller-supplied weight map, empty and partial maps included,
\* replaces the defaults entirely: the scorer's map has exactly the caller's
\* factors, and final_score is the weighted sum over those factors alone.
C18_CallerMapOverrides ==
  weights_arg.given =>
    /\ DOMAIN weights.num = DOMAIN weights_arg.map
    /\ pc = "scored" =>
         \A i \in DOMAIN scored_items :
           (\A f \in DOMAIN weights_arg.map : weights_arg.map[f] = 0)
             => scored_items[i].final_score.n = 0

\* C19: with weights {visual_quality: 1.0, the other five: 0.0} every item's
\* final_score equals its quality_score, so the order by final_score is the
\* order by quality_score.
C19_WeightIsolation ==
  (/\ pc = "scored"
   /\ weights_arg = GivenWeights([f \in Factors |-> IF f = "visual_quality" THEN WUNIT ELSE 0]))
  => /\ \A i \in DOMAIN scored_items :
          RatEq(scored_items[i].final_score,
                [n |-> scored_items[i].quality_score, d |-> SCALE])
     /\ \A i, j \in DOMAIN scored_items :
          RatGt(scored_items[i].final_score, scored_items[j].final_score)
            <=> scored_items[i].quality_score > scored_items[j].quality_score

\* Two items of different quality scored with embeddings under these weights.
C19_Witness ==
  /\ pc = "scored" /\ embed.state = "returned" /\ Len(scored_items) = 2
  /\ weights_arg = GivenWeights([f \in Factors |-> IF f = "visual_quality" THEN WUNIT ELSE 0])
  /\ scored_items[1].quality_score < scored_items[2].quality_score
  /\ scored_items[1].relevance_score # scored_items[2].relevance_score

QueryTerms(q) == {Lower(t) : t \in Range(q.keywords \o q.semantic_concepts \o q.synonyms)}
TagTerms(it) == {Lower(t) : t \in Range(it.tags)}
TextTerms(it) == {Lower(t) : t \in Range(it.title \o it.description)}

\* Items i and j of the call are identical except for their tags; i's tags
\* overlap the query's term set and j's do not.
TagsMatchOnlyIn(i, j) ==
  /\ [ResetScores(items[i]) EXCEPT !.tags = <<>>] = [ResetScores(items[j]) EXCEPT !.tags = <<>>]
  /\ TagTerms(items[i]) \cap QueryTerms(query) # {}
  /\ TagTerms(items[j]) \cap QueryTerms(query) = {}

KeywordWeightPositive ==
  "keyword_match" \in DOMAIN weights.num /\ weights.num["keyword_match"] > 0

\* C20 as stated: with a positive keyword_match weight, of two items of one
\* score_items call that are identical except for their tags, the one whose
\* tags overlap the query's term set has the strictly greater final_score.
C20_KeywordBoostAlways ==
  (pc = "scored" /\ KeywordWeightPositive) =>
    \A i, j \in DOMAIN scored_items :
      TagsMatchOnlyIn(i, j) =>
        RatGt(scored_items[i].final_score, scored_items[j].final_score)

\* C20 (amended): the same, when both items received the same
\* semantic_relevance and the matching item's tags hold a query term that is
\* not already a word of the title or description.
C20_KeywordBoost ==
  (pc = "scored" /\ KeywordWeightPositive) =>
    \A i, j \in DOMAIN scored_items :
      (/\ TagsMatchOnlyIn(i, j)
       /\ scored_items[i].relevance_score = scored_items[j].relevance_score
       /\ (TagTerms(items[i]) \cap QueryTerms(query)) \ TextTerms(items[i]) # {})
      => RatGt(scored_items[i].final_score, scored_items[j].final_score)

\* Default weights, no embeddings: the item tagged "Sunset" beats its twin
\* tagged "dusk".
C20_Witness ==
  /\ pc = "scored" /\ ~ weights_arg.given /\ embed.state = "idle"
  /\ Len(scored_items) = 2
  /\ TagsMatchOnlyIn(1, 2)
  /\ (TagTerms(items[1]) \cap QueryTerms(query)) \ TextTerms(items[1]) # {}
  /\ RatGt(scored_items[1].final_score, scored_items[2].final_score)

\* C15: empty input is not an error.  rank on an empty list returns ([], 0)
\* with no embed_batch request and nothing scored; score_items on an empty
\* list returns [] with no embed_batch request; deduplicate_results([]) and
\* deduplicate_across_batches([]) return ([], 0).
C15_EmptyInput ==
  /\ (items = <<>> /\ pc # "init") =>
       /\ pc \in {"done", "scored", "once", "across"}
       /\ embed = NoEmbed /\ raised = "none" /\ scored_items = <<>>
       /\ pc = "done" => result = [items |-> <<>>, duplicates_removed |-> 0]
       /\ pc = "once" => dd1 = [unique |-> <<>>, removed |-> 0]
  /\ (batches = <<>> /\ pc = "across") => across = [batches |-> <<>>, removed |-> 0]

\* rank has returned on an empty list although a provider is configured.
C15_Witness ==
  /\ items = <<>> /\ pc = "done" /\ openai_client
  /\ result = [items |-> <<>>, duplicates_removed |-> 0]

\* ------------------------------------------- concurrent calls: properties
\* The frame in which call c ends when it runs alone and its embed_batch call
\* ends as e did (e is "idle" when no request was made).
RankAlone(fr, e) ==
  LET started == ProcessStart(Frame(fr.items, fr.query, fr.limit, fr.min_quality_score),
                              openai_client, weights)
  IN IF started.pc = "awaiting"
       THEN ProcessResume(started,
                          [state |-> e.state, texts |-> started.embed.texts,
                           vectors |-> [i \in 1..Len(e.vectors) |->
                                          EmbedText(started.embed.texts[i])]],
                          weights)
     ELSE started

\* C12: every call that has ended, whatever the other call did while its
\* embed_batch request was outstanding, ended with the ranked list, scores and
\* duplicates_removed (or the exception) it ends with when run alone; a call
\* that is waiting has sent the request for its own items.  (That both
\* requests can be outstanding together is the reachable state C12_Witness.)
C12_ConcurrentIndependent ==
  \A c \in CallIds :
    /\ calls[c].pc \in {"done", "raised"} => calls[c] = RankAlone(calls[c], calls[c].embed)
    /\ calls[c].pc = "awaiting" =>
         calls[c] = ProcessStart(Frame(calls[c].items, calls[c].query, calls[c].limit,
                                       calls[c].min_quality_score),
                                 openai_client, weights)

\* Both calls have their embed_batch request outstanding at the same time,
\* each for two items.
C12_Witness ==
  /\ pc = "concurrent"
  /\ calls[1].pc = "awaiting" /\ calls[2].pc = "awaiting"
  /\ Len(calls[1].embed.texts) = 3 /\ Len(calls[2].embed.texts) = 3
  /\ calls[1].embed.texts # calls[2].embed.texts

\* C21: keyword_match is 0.5 when the query has no terms; otherwise 0.0 when
\* the item has no terms; otherwise |query_terms & item_terms| / |query_terms|,
\* which lies in [0, 1] and is 1.0 exactly when every query term is an item
\* term.  (Under a keyword_match-only weight map final_score is this value.)
C21_KeywordMatch ==
  pc = "scored" =>
    \A i \in DOMAIN scored_items :
      LET Q == QueryTerms(query)
          I == TextTerms(items[i]) \cup TagTerms(items[i])
          kw == _calculate_keyword_score(items[i], query)
      IN /\ Q = {} => kw = SCALE \div 2
         /\ (Q # {} /\ I = {}) => kw = 0
         /\ (Q # {} /\ I # {}) =>
              /\ kw * Cardinality(Q) = Cardinality(Q \cap I) * SCALE
              /\ kw = SCALE <=> Q \subseteq I
         /\ 0 <= kw /\ kw <= SCALE
         /\ DOMAIN weights.num = {"keyword_match"} =>
              RatEq(scored_items[i].final_score, [n |-> kw, d |-> SCALE])

\* keyword_match alone weighted: one item holds both query terms (1.0), the
\* other one of the two (0.5).
C21_Witness ==
  /\ pc = "scored" /\ DOMAIN weights.num = {"keyword_match"}
  /\ Len(scored_items) = 2
  /\ Cardinality(QueryTerms(query)) = 2
  /\ scored_items[1].final_score.n = scored_items[1].final_score.d
  /\ 2 * scored_items[2].final_score.n = scored_items[2].final_score.d

\* The number of items of `its` that have the source of its[i].
SameSource(its, i) == Cardinality({j \in DOMAIN its : its[j].source = its[i].source})

\* C22: every item's source_diversity is 1 - (items of the scored list with
\* its source / items of the scored list); in rank the scored list is the
\* deduplicated list, whatever the filter and the limit later drop.
C22_SourceDiversity ==
  pc = "done" =>
    LET U == deduplicate_results(items).unique
        emb == EmbeddingsOf(embed)
        item_embedding(i) ==
          IF emb.item_embeddings # <<>> THEN emb.item_embeddings[i] ELSE <<>>
        diversity(i) == SCALE - (SameSource(U, i) * SCALE) \div Len(U)
        scores(i) ==
          [FactorScores(U[i], query, emb.query_embedding, item_embedding(i), <<>>)
             EXCEPT !["source_diversity"] = diversity(i)]
    IN /\ Len(scored_items) = Len(U)
       /\ \A i \in DOMAIN scored_items :
            /\ (SameSource(U, i) * SCALE) % Len(U) = 0
            /\ scored_items[i].final_score = FinalScore(scores(i), weights)
            /\ SameSource(U, i) = Len(U) => diversity(i) = 0

\* Default weights; three deduplicated items, two of one source and one of the
\* other, and the limit returns one of them.
C22_Witness ==
  /\ pc = "done" /\ ~ weights_arg.given /\ limit = 1
  /\ Len(scored_items) = 3 /\ Len(result.items) = 1
  /\ Cardinality({scored_items[i].source : i \in DOMAIN scored_items}) = 2

\* The text list the claim describes: the query text, then one text per item
\* in item order.
ExpectedTexts ==
  [k \in 1..(Len(items) + 1) |->
     IF k = 1 THEN query.english_query \o query.keywords
     ELSE LET it == items[k - 1]
          IN IF it.title = <<>> /\ it.description = <<>> /\ it.tags = <<>>
               THEN <<"media">>
             ELSE it.title \o it.description \o it.tags]

C24_OneRequest ==
  /\ embed.state # "idle" =>
       openai_client /\ items # <<>> /\ embed.texts = ExpectedTexts
  /\ (pc = "scored" /\ openai_client /\ items # <<>>) =>
       embed.state \in {"returned", "raised"}
  /\ (pc = "scored" /\ embed.state = "returned"
        /\ Len(embed.vectors) = Len(items) + 1) =>
       \A i \in DOMAIN scored_items :
         scored_items[i].relevance_score =
           SemanticRelevance(embed.vectors[1], embed.vectors[i + 1])

C24_RequestStep ==
  embed' # embed =>
    \/ embed.state = "idle" /\ embed'.state = "pending"
    \/ /\ embed.state = "pending" /\ embed'.state \in {"returned", "raised"}
       /\ embed'.texts = embed.texts

\* C24: with a provider and a non-empty item list score_items makes exactly
\* one embed_batch call (the request goes idle -> pending -> finished and never
\* back), its texts are the query text followed by one text per item in item
\* order, and item i is scored against returned vector i+1 with the first
\* vector as the query embedding.
C24_SingleBatchInOrder == []C24_OneRequest /\ [][C24_RequestStep]_vars

\* A full response for two items whose vectors differ: the items get
\* different relevance scores.
C24_Witness ==
  /\ pc = "scored" /\ embed.state = "returned"
  /\ Len(items) = 2 /\ Len(embed.vectors) = 3
  /\ embed.vectors[2] # embed.vectors[3]
  /\ scored_items[1].relevance_score # scored_items[2].relevance_score
  /\ scored_items[1].relevance_score # SCALE \div 2

\* ------------------------------------------- the scorer's pure primitives
\* _calculate_quality_score and _cosine_similarity applied to inputs drawn
\* from bounded sets.
MaxVecLen == 2

\* Nothing but a utility or a pipeline is in use.
CoreIdle ==
  /\ pc = "util" /\ items = <<>> /\ batches = <<>>
  /\ DedupIdle /\ RankIdle /\ ConcIdle

\* (width, height) pairs on and next to the tier boundaries.
Resolutions ==
  {<<3840, 2160>>, <<1920, 1080>>, <<1280, 720>>, <<640, 480>>, <<0, 0>>,
   <<2000, 2000>>, <<1999, 2000>>, <<2000, 1000>>, <<1999, 1000>>,
   <<1000, 1000>>, <<999, 1000>>, <<1000, 500>>, <<999, 500>>}

Vectors == BoundedSeq({-1, 0, 1}, MaxVecLen)

SizedItem(res) ==
  MediaItem("id1", MediaUrls("u1", NoUrl, NoUrl), "pexels", res[1], res[2],
            <<>>, <<>>, 0, NoDate)

InitPure ==
  /\ CoreIdle
  /\ cb = Idle /\ rl = Idle /\ bp = Idle /\ sp = Idle
  /\ \/ \E r1 \in Resolutions, r2 \in Resolutions :
          pure = [pc |-> "init", fn |-> "quality", arg1 |-> r1, arg2 |-> r2,
                  ret1 |-> 0, ret2 |-> 0]
     \/ \E v1 \in Vectors, v2 \in Vectors :
          pure = [pc |-> "init", fn |-> "cosine", arg1 |-> v1, arg2 |-> v2,
                  ret1 |-> 0, ret2 |-> 0]

\* self._calculate_quality_score(item) on two items
QualityCall ==
  /\ pure.pc = "init" /\ pure.fn = "quality"
  /\ pure' = [pure EXCEPT !.pc = "done",
                          !.ret1 = _calculate_quality_score(SizedItem(pure.arg1)),
                          !.ret2 = _calculate_quality_score(SizedItem(pure.arg2))]
  /\ UNCHANGED <<coreVars, cb, rl, bp, sp>>

\* self._cosine_similarity(vec1, vec2), and with the arguments exchanged
CosineCall ==
  /\ pure.pc = "init" /\ pure.fn = "cosine"
  /\ pure' = [pure EXCEPT !.pc = "done",
                          !.ret1 = _cosine_similarity(pure.arg1, pure.arg2),
                          !.ret2 = _cosine_similarity(pure.arg2, pure.arg1)]
  /\ UNCHANGED <<coreVars, cb, rl, bp, sp>>

NextPure == QualityCall \/ CosineCall

SpecPure == InitPure /\ [][NextPure]_vars

\* The tier of a pixel count, in hundredths.
TierOf(pixels) ==
  CASE pixels >= 4000000 -> 100
    [] pixels >= 2000000 /\ pixels < 4000000 -> 85
    [] pixels >= 1000000 /\ pixels < 2000000 -> 70
    [] pixels >= 500000 /\ pixels < 1000000 -> 50
    [] OTHER -> 30

SquaredNorm(v) == SumOver(DOMAIN v, [i \in DOMAIN v |-> v[i] * v[i]])
InnerProduct(v1, v2) == SumOver(DOMAIN v1, [i \in DOMAIN v1 |-> v1[i] * v2[i]])

\* C25: _cosine_similarity returns 0.0 when the vectors differ in length or
\* either has norm 0 (two empty vectors included); otherwise (cos + 1) / 2,
\* which is 1.0 for identical unit vectors and 0.5 for orthogonal unit
\* vectors.  (cos is stated exactly where the product of the norms is an
\* integer r: (2 * ret - 1) * r = v1 . v2.)
C25_CosinePrimitive ==
  (pure.pc = "done" /\ pure.fn = "cosine") =>
    LET v1 == pure.arg1
        v2 == pure.arg2
        degenerate == Len(v1) # Len(v2) \/ SquaredNorm(v1) = 0 \/ SquaredNorm(v2) = 0
    IN /\ degenerate => pure.ret1 = 0
       /\ ~ degenerate =>
            /\ 0 <= pure.ret1 /\ pure.ret1 <= SCALE
            /\ \A r \in 1..(MaxVecLen + 1) :
                 r * r = SquaredNorm(v1) * SquaredNorm(v2) =>
                   (2 * pure.ret1 - SCALE) * r = InnerProduct(v1, v2) * SCALE
            /\ (v1 = v2 /\ SquaredNorm(v1) = 1) => pure.ret1 = SCALE
            /\ (SquaredNorm(v1) = 1 /\ SquaredNorm(v2) = 1 /\ InnerProduct(v1, v2) = 0)
                 => 2 * pure.ret1 = SCALE
       /\ pure.ret2 = pure.ret1

\* Two vectors of different lengths give 0.0.
C25_Witness ==
  /\ pure.pc = "done" /\ pure.fn = "cosine"
  /\ pure.arg1 = <<1>> /\ pure.arg2 = <<1, 0>> /\ pure.ret1 = 0

\* --------------------------------------------------------- circuit breaker
\* CircuitBreaker as BaseHTTPClient constructs it, wrapped around a service
\* that fails until it recovers, and called by MaxBreakerCallers tasks.  Time
\* is the age of the last failure, in steps of recovery_timeout / 2 and held at
\* recovery_timeout once it has elapsed (the code only compares it with
\* recovery_timeout).
MaxBreakerCallers == 2

failure_threshold == 5
recovery_timeout == 30
half_open_max_calls == 3

BreakerCallers == 1..MaxBreakerCallers
NoFailureYet == -1
TickLen == recovery_timeout \div 2

\* CircuitBreaker.__init__
NewBreaker ==
  [_state |-> "CLOSED", _failure_count |-> 0, _last_failure_age |-> NoFailureYet,
   _half_open_calls |-> 0]

_should_attempt_reset(b) ==
  IF b._last_failure_age = NoFailureYet THEN TRUE
  ELSE b._last_failure_age >= recovery_timeout

\* the `state` property
BreakerState(b) ==
  IF b._state = "OPEN" /\ _should_attempt_reset(b) THEN "HALF_OPEN" ELSE b._state

_reset(b) ==
  [_state |-> "CLOSED", _failure_count |-> 0, _last_failure_age |-> NoFailureYet,
   _half_open_calls |-> 0]

\* _on_success tests the stored _state, which no statement sets to HALF_OPEN.
_on_success(b) ==
  IF b._state = "HALF_OPEN"
    THEN LET b1 == [b EXCEPT !._half_open_calls = @ - 1]
         IN IF b1._half_open_calls <= 0 THEN _reset(b1) ELSE b1
  ELSE [b EXCEPT !._failure_count = 0]

OnFailureOpensLate(b) ==
  LET b1 == [b EXCEPT !._failure_count = @ + 1, !._last_failure_age = 0]
  IN IF b1._state = "HALF_OPEN"
       THEN [b1 EXCEPT !._state = "OPEN", !._half_open_calls = 0]
     ELSE IF b1._failure_count > failure_threshold
       THEN [b1 EXCEPT !._state = "OPEN"]
     ELSE b1

_on_failure(b) ==
  LET b1 == [b EXCEPT !._failure_count = @ + 1, !._last_failure_age = 0]
  IN IF b1._state = "HALF_OPEN"
       THEN [b1 EXCEPT !._state = "OPEN", !._half_open_calls = 0]
     ELSE IF b1._failure_count >= failure_threshold
       THEN [b1 EXCEPT !._state = "OPEN"]
     ELSE b1

\* The admission block of call(): the breaker afterwards and whether the
\* wrapped function is invoked.
Admission(b) ==
  LET current_state == BreakerState(b)
  IN IF current_state = "OPEN" THEN [breaker |-> b, admitted |-> FALSE]
     ELSE IF current_state = "HALF_OPEN"
       THEN IF b._half_open_calls >= half_open_max_calls
              THEN [breaker |-> b, admitted |-> FALSE]
            ELSE [breaker |-> [b EXCEPT !._half_open_calls = @ + 1], admitted |-> TRUE]
     ELSE [breaker |-> b, admitted |-> TRUE]

InitBreaker ==
  /\ CoreIdle
  /\ pure = Idle /\ rl = Idle /\ bp = Idle /\ sp = Idle
  /\ cb = [pc |-> "run", breaker |-> NewBreaker,
           callers |-> [c \in BreakerCallers |-> "idle"],
           service |-> "failing", consecutive |-> 0]

\* A task calls breaker.call(func): rejected with CircuitOpenError, or func is
\* invoked and the task waits for it.
BreakerEnter(c) ==
  /\ cb.pc = "run" /\ cb.callers[c] = "idle"
  /\ LET a == Admission(cb.breaker)
     IN cb' = [cb EXCEPT !.breaker = a.breaker,
                         !.callers[c] = IF a.admitted THEN "inflight" ELSE "rejected"]
  /\ UNCHANGED <<coreVars, pure, rl, bp, sp>>

\* The CircuitOpenError reaches the task, which may call again.
BreakerRejected(c) ==
  /\ cb.pc = "run" /\ cb.callers[c] = "rejected"
  /\ cb' = [cb EXCEPT !.callers[c] = "idle"]
  /\ UNCHANGED <<coreVars, pure, rl, bp, sp>>

\* func returns: _on_success, then the result reaches the task.
BreakerSucceed(c) ==
  /\ cb.pc = "run" /\ cb.callers[c] = "inflight"
  /\ cb' = [cb EXCEPT !.breaker = _on_success(cb.breaker),
                      !.callers[c] = "idle", !.consecutive = 0]
  /\ UNCHANGED <<coreVars, pure, rl, bp, sp>>

\* func raises (only while the service is failing): _on_failure, re-raise.
BreakerFail(c) ==
  /\ cb.pc = "run" /\ cb.callers[c] = "inflight" /\ cb.service = "failing"
  /\ cb' = [cb EXCEPT !.breaker = _on_failure(cb.breaker),
                      !.callers[c] = "idle", !.consecutive = @ + 1]
  /\ UNCHANGED <<coreVars, pure, rl, bp, sp>>

\* The protected service recovers for good.
ServiceRecover ==
  /\ cb.pc = "run" /\ cb.service = "failing"
  /\ cb' = [cb EXCEPT !.service = "recovered"]
  /\ UNCHANGED <<coreVars, pure, rl, bp, sp>>

\* time.time() advances.
BreakerTick ==
  /\ cb.pc = "run"
  /\ cb.breaker._last_failure_age # NoFailureYet
  /\ cb.breaker._last_failure_age < recovery_timeout
  /\ cb' = [cb EXCEPT !.breaker._last_failure_age = Min(@ + TickLen, recovery_timeout)]
  /\ UNCHANGED <<coreVars, pure, rl, bp, sp>>

NextBreaker ==
  \/ \E c \in BreakerCallers :
       BreakerEnter(c) \/ BreakerRejected(c) \/ BreakerSucceed(c) \/ BreakerFail(c)
  \/ ServiceRecover
  \/ BreakerTick

\* Time passes, every task keeps calling, and a wrapped call that can return
\* does return.
SpecBreaker ==
  /\ InitBreaker /\ [][NextBreaker]_vars
  /\ WF_vars(BreakerTick)
  /\ \A c \in BreakerCallers :
       WF_vars(BreakerEnter(c)) /\ WF_vars(BreakerRejected(c)) /\ WF_vars(BreakerSucceed(c))

\* C26: once the protected service has recovered, an open breaker returns to
\* CLOSED with its failure count and half-open call count reset (after the
\* recovery timeout, through successful half-open probes); it does not stay
\* rejecting calls forever.
C26_BreakerRecovers ==
  (cb.pc = "run" /\ cb.service = "recovered" /\ cb.breaker._state = "OPEN")
    ~> (cb.breaker._state = "CLOSED" /\ cb.breaker._failure_count = 0
          /\ cb.breaker._half_open_calls = 0)

C27_OpenAtThreshold ==
  cb.pc = "run" =>
    /\ cb.consecutive >= failure_threshold => cb.breaker._state = "OPEN"
    /\ cb.breaker._state = "OPEN" => cb.breaker._last_failure_age # NoFailureYet

C27_CallStep ==
  cb.pc = "run" =>
    /\ \A c \in BreakerCallers :
         (cb.callers[c] = "idle" /\ cb'.callers[c] # "idle") =>
           /\ (cb.breaker._state = "OPEN"
                 /\ cb.breaker._last_failure_age < recovery_timeout) =>
                (cb'.callers[c] = "rejected" /\ cb'.breaker = cb.breaker)
           /\ cb.breaker._state = "CLOSED" =>
                (cb'.callers[c] = "inflight" /\ cb'.breaker = cb.breaker)
    /\ (cb.breaker._state = "CLOSED" /\ cb'.consecutive < failure_threshold) =>
         cb'.breaker._state = "CLOSED"

\* C27: after failure_threshold failures with no success between them the
\* breaker is OPEN, and a call made before recovery_timeout has elapsed since
\* the last failure is rejected without invoking the function or touching the
\* breaker; a CLOSED breaker with fewer than failure_threshold consecutive
\* failures stays CLOSED and passes every call through.
C27_BreakerOpens == []C27_OpenAtThreshold /\ [][C27_CallStep]_vars

\* The fifth consecutive failure has opened the breaker and a call made
\* before the timeout was rejected.
C27_Witness ==
  /\ cb.pc = "run" /\ cb.consecutive = failure_threshold
  /\ cb.breaker._state = "OPEN" /\ cb.breaker._last_failure_age < recovery_timeout
  /\ \E c \in BreakerCallers : cb.callers[c] = "rejected"

\* ----------------------------------------------------------- BatchPipeline
\* BatchPipeline.execute over up to MaxSearches searches.  A search is known
\* by its position in the request; SearchPipeline.execute either raises or
\* returns a response whose total_returned is the length of its results
\* (search.py line 194).
MaxSearches == 3

PoolItem(id, original) == CHOOSE it \in AcrossPool : it.id = id /\ it.urls.original = original

SearchResultLists ==
  {<<>>,
   <<PoolItem("id1", "u1")>>,
   <<PoolItem("id1", "u1"), PoolItem("id2", "u2")>>,
   <<PoolItem("id1", "u3")>>,
   <<PoolItem("id1", "u3"), PoolItem("id2", "u2")>>,
   <<PoolItem("id3", "u3")>>}

PendingSearch(i) ==
  [kind |-> "pending", request |-> i, results |-> <<>>, total_returned |-> 0]
RaisedSearch(i) ==
  [kind |-> "exception", request |-> i, results |-> <<>>, total_returned |-> 0]
SearchResponse(i, results) ==
  [kind |-> "response", request |-> i, results |-> results,
   total_returned |-> Len(results)]

NoBatchResponse ==
  [success |-> FALSE, searches |-> <<>>, total_results |-> 0, duplicates_removed |-> 0]

\* successful_results: the gathered results that are not exceptions
SuccessfulResults(search_results) ==
  SelectSeq(search_results, LAMBDA r : r.kind # "exception")

BatchResponseStaleReturned(search_results, deduplicate_across) ==
  LET successful_results == SuccessfulResults(search_results)
      dedup == deduplicate_across /\ Len(successful_results) > 1
      dd == deduplicate_across_batches(
              [i \in DOMAIN successful_results |-> successful_results[i].results])
      updated ==
        IF dedup
          THEN [i \in DOMAIN successful_results |->
                  [successful_results[i] EXCEPT !.results = dd.batches[i]]]
        ELSE successful_results
  IN [success |-> TRUE, searches |-> updated,
      total_results |-> SumOver(DOMAIN updated, [i \in DOMAIN updated |-> Len(updated[i].results)]),
      duplicates_removed |-> IF dedup THEN dd.removed ELSE 0]

\* execute after asyncio.gather has returned search_results
BatchResponse(search_results, deduplicate_across) ==
  LET successful_results == SuccessfulResults(search_results)
      dedup == deduplicate_across /\ Len(successful_results) > 1
      dd == deduplicate_across_batches(
              [i \in DOMAIN successful_results |-> successful_results[i].results])
      updated ==
        IF dedup
          THEN [i \in DOMAIN successful_results |->
                  [successful_results[i] EXCEPT !.results = dd.batches[i],
                                                !.total_returned = Len(dd.batches[i])]]
        ELSE successful_results
  IN [success |-> TRUE, searches |-> updated,
      total_results |-> SumOver(DOMAIN updated, [i \in DOMAIN updated |-> Len(updated[i].results)]),
      duplicates_removed |-> IF dedup THEN dd.removed ELSE 0]

InitBatch ==
  /\ CoreIdle
  /\ pure = Idle /\ cb = Idle /\ rl = Idle /\ sp = Idle
  /\ \E n \in 1..MaxSearches, m \in 1..MaxSearches, d \in BOOLEAN :
       bp = [pc |-> "init", requested |-> n,
             searches |-> [i \in 1..n |-> i], max_batch_size |-> m,
             deduplicate_across |-> d, tasks |-> <<>>, response |-> NoBatchResponse]

\* The truncation and the creation of one task per search; gather starts
\* them all.
BatchStart ==
  /\ bp.pc = "init"
  /\ LET searches ==
           IF Len(bp.searches) > bp.max_batch_size
             THEN PySliceTo(bp.searches, bp.max_batch_size)
           ELSE bp.searches
     IN bp' = [bp EXCEPT !.pc = "gathering", !.searches = searches,
                         !.tasks = [i \in DOMAIN searches |-> PendingSearch(searches[i])]]
  /\ UNCHANGED <<coreVars, pure, cb, rl, sp>>

\* One search finishes, in any order: it raises or returns a response.
SearchComplete(i) ==
  /\ bp.pc = "gathering"
  /\ i \in DOMAIN bp.tasks /\ bp.tasks[i].kind = "pending"
  /\ \/ bp' = [bp EXCEPT !.tasks[i] = RaisedSearch(bp.tasks[i].request)]
     \/ \E results \in SearchResultLists :
          bp' = [bp EXCEPT !.tasks[i] = SearchResponse(bp.tasks[i].request, results)]
  /\ UNCHANGED <<coreVars, pure, cb, rl, sp>>

\* gather returns once every search has finished; the rest of execute.
BatchFinish ==
  /\ bp.pc = "gathering"
  /\ \A i \in DOMAIN bp.tasks : bp.tasks[i].kind # "pending"
  /\ bp' = [bp EXCEPT !.pc = "done",
                      !.response = BatchResponse(bp.tasks, bp.deduplicate_across)]
  /\ UNCHANGED <<coreVars, pure, cb, rl, sp>>

NextBatch ==
  \/ BatchStart
  \/ \E i \in 1..MaxSearches : SearchComplete(i)
  \/ BatchFinish

SpecBatch == InitBatch /\ [][NextBatch]_vars

\* The positions of the searches that returned a response.
Completed == {i \in DOMAIN bp.tasks : bp.tasks[i].kind = "response"}

\* C28: the batch response has success = True whatever searches raised; its
\* searches are exactly the responses of the searches that did not raise, in
\* request order, each with total_returned = len(results); total_results is
\* the sum of these lengths; cross-search deduplication is applied only when
\* deduplicate_across is true and at least two searches succeeded, otherwise
\* duplicates_removed is 0 and the results are as returned; the searches run
\* are the first max_batch_size of the request.
C28_BatchNeverFails ==
  /\ bp.pc \in {"gathering", "done"} =>
       /\ Len(bp.tasks) = Min(bp.requested, bp.max_batch_size)
       /\ \A i \in DOMAIN bp.tasks : bp.tasks[i].request = i
  /\ bp.pc = "done" =>
       LET out == bp.response.searches
           before == [k \in DOMAIN out |-> bp.tasks[out[k].request].results]
           dd == deduplicate_across_batches(before)
       IN /\ bp.response.success
          /\ Len(out) = Cardinality(Completed)
          /\ {out[k].request : k \in DOMAIN out} = Completed
          /\ \A k, l \in DOMAIN out : k < l => out[k].request < out[l].request
          /\ \A k \in DOMAIN out : out[k].total_returned = Len(out[k].results)
          /\ bp.response.total_results =
               SumOver(DOMAIN out, [k \in DOMAIN out |-> Len(out[k].results)])
          /\ IF bp.deduplicate_across /\ Cardinality(Completed) >= 2
               THEN /\ [k \in DOMAIN out |-> out[k].results] = dd.batches
                    /\ bp.response.duplicates_removed = dd.removed
             ELSE /\ [k \in DOMAIN out |-> out[k].results] = before
                  /\ bp.response.duplicates_removed = 0

\* Three searches; the second raised; the other two shared an item, which
\* was removed from the later one.
C28_Witness ==
  /\ bp.pc = "done" /\ Len(bp.tasks) = 3
  /\ bp.tasks[2].kind = "exception"
  /\ Len(bp.response.searches) = 2
  /\ bp.response.duplicates_removed > 0
  /\ bp.response.searches[2].total_returned < Len(bp.tasks[3].results)

\* ------------------------------------------------------------- RateLimiter
\* RateLimiter.is_allowed for one identifier, called by MaxLimiterCallers
\* tasks against one cache, with the clock in whole seconds up to MaxTime.
MaxLimiterCallers == 2
MaxLimiterCalls == 3
MaxRequests == 2
MaxTime == 3

\* the constructor's window_seconds
window_seconds == 2

LimiterCallers == 1..MaxLimiterCallers
NoKey == -1

\* _get_key: the identifier's key is told apart by the window number.
_get_key(now) == now \div window_seconds

NoCounter == [count |-> 0, expire_at |-> NoKey]

\* The cache's counter under `key` at time `now`: an expired key is gone.
CounterAt(cache, key, now) ==
  IF key \in DOMAIN cache /\ ~ (cache[key].expire_at # NoKey /\ now >= cache[key].expire_at)
    THEN cache[key]
  ELSE NoCounter

IdleCaller == [pc |-> "idle", key |-> NoKey, current |-> 0, counted_at |-> 0]

InitLimiter ==
  /\ CoreIdle
  /\ pure = Idle /\ cb = Idle /\ bp = Idle /\ sp = Idle
  /\ \E m \in 1..MaxRequests :
       rl = [pc |-> "run", max_requests |-> m, now |-> 0,
             cache |-> [k \in 0..(MaxTime \div window_seconds) |-> NoCounter],
             callers |-> [c \in LimiterCallers |-> IdleCaller],
             cache_failed |-> FALSE, log |-> <<>>]

\* is_allowed up to `await self.cache.incr(key)`.
LimiterStart(c) ==
  /\ rl.pc = "run" /\ rl.callers[c].pc = "idle"
  /\ Len(rl.log) + Cardinality({d \in LimiterCallers : rl.callers[d].pc # "idle"})
       < MaxLimiterCalls
  /\ rl' = [rl EXCEPT !.callers[c] = [pc |-> "incr", key |-> _get_key(rl.now),
                                      current |-> 0, counted_at |-> 0]]
  /\ UNCHANGED <<coreVars, pure, cb, bp, sp>>

\* remaining = max(0, max_requests - current); allowed = current <= max_requests
Verdict(current, max_requests) ==
  [allowed |-> current <= max_requests, remaining |-> Max(0, max_requests - current)]

\* The call returns v; the log keeps it under the time the cache counted it.
LimiterReturn(c, v, counted_at) ==
  [rl EXCEPT !.callers[c] = IdleCaller,
             !.log = Append(@, [time |-> counted_at, allowed |-> v.allowed,
                                remaining |-> v.remaining])]

\* cache.incr(key) answers; unless it is the key's first count the call
\* returns its verdict.
LimiterIncr(c) ==
  /\ rl.pc = "run" /\ rl.callers[c].pc = "incr"
  /\ LET key == rl.callers[c].key
         old == CounterAt(rl.cache, key, rl.now)
         current == old.count + 1
         counted == [rl EXCEPT !.cache[key] = [old EXCEPT !.count = current]]
     IN IF current = 1
          THEN rl' = [counted EXCEPT !.callers[c].pc = "expire",
                                     !.callers[c].current = current,
                                     !.callers[c].counted_at = rl.now]
        ELSE rl' = [LimiterReturn(c, Verdict(current, rl.max_requests), rl.now)
                      EXCEPT !.cache = counted.cache]
  /\ UNCHANGED <<coreVars, pure, cb, bp, sp>>

\* cache.incr raises: except Exception: return True, self.max_requests
LimiterIncrFail(c) ==
  /\ rl.pc = "run" /\ rl.callers[c].pc = "incr"
  /\ rl' = [LimiterReturn(c, [allowed |-> TRUE, remaining |-> rl.max_requests], rl.now)
              EXCEPT !.cache_failed = TRUE]
  /\ UNCHANGED <<coreVars, pure, cb, bp, sp>>

\* cache.expire(key, window_seconds) answers; the call returns its verdict.
LimiterExpire(c) ==
  /\ rl.pc = "run" /\ rl.callers[c].pc = "expire"
  /\ LET key == rl.callers[c].key
         old == CounterAt(rl.cache, key, rl.now)
         cache1 == IF old.count > 0
                     THEN [rl.cache EXCEPT ![key] =
                             [old EXCEPT !.expire_at = rl.now + window_seconds]]
                   ELSE rl.cache
     IN rl' = [LimiterReturn(c, Verdict(rl.callers[c].current, rl.max_requests),
                             rl.callers[c].counted_at)
                 EXCEPT !.cache = cache1]
  /\ UNCHANGED <<coreVars, pure, cb, bp, sp>>

\* time.time() advances by a second.
LimiterTick ==
  /\ rl.pc = "run" /\ rl.now < MaxTime
  /\ rl' = [rl EXCEPT !.now = @ + 1]
  /\ UNCHANGED <<coreVars, pure, cb, bp, sp>>

NextLimiter ==
  \/ \E c \in LimiterCallers :
       LimiterStart(c) \/ LimiterIncr(c) \/ LimiterIncrFail(c) \/ LimiterExpire(c)
  \/ LimiterTick

SpecLimiter == InitLimiter /\ [][NextLimiter]_vars

\* The calls counted at a time in [t, t + window_seconds) that returned
\* allowed = True.
AllowedWithin(t) ==
  {k \in DOMAIN rl.log :
     rl.log[k].allowed /\ t <= rl.log[k].time /\ rl.log[k].time < t + window_seconds}

\* C29: while the cache works, in any time interval of window_seconds at
\* most max_requests calls to is_allowed return allowed = True.
C29_SlidingWindow ==
  (rl.pc = "run" /\ ~ rl.cache_failed) =>
    \A t \in 0..MaxTime : Cardinality(AllowedWithin(t)) <= rl.max_requests

\* ---------------------------------------- concurrent searches, one pipeline
\* MaxSearchTasks searches run SearchPipeline.execute on one pipeline, so on
\* the same three agents; each agent call is BaseAgent.execute, cut at its
\* awaits (cache read, process, cache write).  The response cache and the
\* ranker do not touch the flags and are left out.
MaxSearchTasks == 2

SearchTasks == 1..MaxSearchTasks
SearchTexts == {"sunset", "ocean"}

\* the agents in the order SearchPipeline.execute calls them
PipelineAgents == <<"language_detector", "query_generator", "media_fetcher">>
AgentNames == Range(PipelineAgents)

\* the agents' cache_enabled class attribute
cache_enabled(agent) == agent # "query_generator"

InitSearch ==
  /\ CoreIdle
  /\ pure = Idle /\ cb = Idle /\ rl = Idle /\ bp = Idle
  /\ \E texts \in [SearchTasks -> SearchTexts],
        cached \in [{a \in AgentNames : cache_enabled(a)} -> SUBSET SearchTexts] :
       sp = [pc |-> "run", text |-> texts,
             at |-> [t \in SearchTasks |-> [agent |-> 1, step |-> "call"]],
             _last_cache_hit |-> [a \in AgentNames |-> FALSE],
             cache |-> [a \in AgentNames |-> IF cache_enabled(a) THEN cached[a] ELSE {}],
             apis_invoked |-> [t \in SearchTasks |-> <<>>]]

AgentOf(t) == PipelineAgents[sp.at[t].agent]

\* execute returns to SearchPipeline.execute, which reads the agent's
\* _last_cache_hit into the ApiCall before its next await; `served` keeps
\* whether this call's result came from the cache.
AgentReturn(state, t, served) ==
  LET a == PipelineAgents[state.at[t].agent]
  IN [state EXCEPT
        !.apis_invoked[t] = Append(@, [agent |-> a, cached |-> state._last_cache_hit[a],
                                       served |-> served]),
        !.at[t] = [agent |-> state.at[t].agent + 1, step |-> "call"]]

\* BaseAgent.execute up to its first await: the flag is cleared, then the
\* cache read or (cache disabled) process is awaited.
AgentExecuteStart(t) ==
  /\ sp.pc = "run" /\ sp.at[t].agent <= Len(PipelineAgents) /\ sp.at[t].step = "call"
  /\ sp' = [sp EXCEPT !._last_cache_hit[AgentOf(t)] = FALSE,
                      !.at[t].step = IF cache_enabled(AgentOf(t)) THEN "cache_get"
                                     ELSE "process"]
  /\ UNCHANGED <<coreVars, pure, cb, rl, bp>>

\* _get_from_cache answers: a hit sets the flag and returns; a miss goes on
\* to await process.
AgentCacheGetReturn(t) ==
  /\ sp.pc = "run" /\ sp.at[t].agent <= Len(PipelineAgents) /\ sp.at[t].step = "cache_get"
  /\ IF sp.text[t] \in sp.cache[AgentOf(t)]
       THEN sp' = AgentReturn([sp EXCEPT !._last_cache_hit[AgentOf(t)] = TRUE], t, TRUE)
     ELSE sp' = [sp EXCEPT !.at[t].step = "process"]
  /\ UNCHANGED <<coreVars, pure, cb, rl, bp>>

\* process answers: the result is written to the cache (awaited), or with
\* the cache disabled execute returns.
AgentProcessReturn(t) ==
  /\ sp.pc = "run" /\ sp.at[t].agent <= Len(PipelineAgents) /\ sp.at[t].step = "process"
  /\ IF cache_enabled(AgentOf(t))
       THEN sp' = [sp EXCEPT !.at[t].step = "cache_set"]
     ELSE sp' = AgentReturn(sp, t, FALSE)
  /\ UNCHANGED <<coreVars, pure, cb, rl, bp>>

\* _set_in_cache answers; execute returns the fresh result.
AgentCacheSetReturn(t) ==
  /\ sp.pc = "run" /\ sp.at[t].agent <= Len(PipelineAgents) /\ sp.at[t].step = "cache_set"
  /\ sp' = AgentReturn([sp EXCEPT !.cache[AgentOf(t)] = @ \cup {sp.text[t]}], t, FALSE)
  /\ UNCHANGED <<coreVars, pure, cb, rl, bp>>

NextSearch ==
  \E t \in SearchTasks :
    \/ AgentExecuteStart(t)
    \/ AgentCacheGetReturn(t)
    \/ AgentProcessReturn(t)
    \/ AgentCacheSetReturn(t)

SpecSearch == InitSearch /\ [][NextSearch]_vars

\* C30: the cached flag a search records for an agent call says whether that
\* search's own call was served from the agent cache.
C30_CachedFlagOwnCall ==
  sp.pc = "run" =>
    \A t \in SearchTasks : \A k \in DOMAIN sp.apis_invoked[t] :
      sp.apis_invoked[t][k].cached = sp.apis_invoked[t][k].served

====
